---- MODULE Spec2Model ----
(***************************************************************************)
(* Model of lms/djangoapps/verify_student/api.py: the three API functions  *)
(* send_approval_email, create_verification_attempt and                    *)
(* update_verification_attempt_status, acting on the VerificationAttempt   *)
(* table, the asynchronous task queue and the direct e-mail backend.       *)
(***************************************************************************)
EXTENDS Integers, Sequences, FiniteSets, TLC

(* ------------------------------ bounds --------------------------------- *)

\* number of rows the VerificationAttempt table may hold in the model
MaxAttempts == 2

(* ------------------------------ inputs --------------------------------- *)

\* the (user, name) arguments of create_verification_attempt
Learners == {<<"alice", "Tester McTest">>, <<"bob", "Other Name">>}

\* Python None
None == << >>

\* datetimes are <<year, month, day, hour>>, dates are <<year, month, day>>
\* expiration_datetime arguments of create_verification_attempt
ExpirationInputs == {None, <<2024, 12, 31, 0>>}

\* values settings.VERIFY_STUDENT.get('USE_DJANGO_MAIL') can return: the key
\* set to True, set to False, or absent (get returns None)
SettingValues == {"True", "False", "None"}

(* ------------------------- VerificationAttemptStatus ------------------- *)

\* class VerificationAttemptStatus: attribute name -> attribute value
VerificationAttemptStatus ==
    [created |-> "created", pending |-> "pending",
     approved |-> "approved", denied |-> "denied"]

\* [attr for attr in dir(VerificationAttemptStatus) if not attr.startswith('__')]
status_list == DOMAIN VerificationAttemptStatus

\* status arguments of update_verification_attempt_status
StatusInputs ==
    {VerificationAttemptStatus[a] : a \in status_list} \cup {"completed", "expired"}

\* status arguments of create_verification_attempt
CreateStatusInputs == {VerificationAttemptStatus.created, VerificationAttemptStatus.approved, "completed"}

\* attempt_id arguments of update_verification_attempt_status; the table never
\* holds a row under the last of them
IdInputs == 1..(MaxAttempts + 1)

(* ------------------------------ helpers -------------------------------- *)

\* truth value of a Python object in an if statement
Truthy(v) == v = "True"

\* datetime.date()
date(dt) == <<dt[1], dt[2], dt[3]>>

DigitChars == <<"0", "1", "2", "3", "4", "5", "6", "7", "8", "9">>
Digit(n) == DigitChars[n + 1]

\* zero-padded decimal of width w, as a sequence of characters
RECURSIVE Zfill(_, _)
Zfill(n, w) == IF w = 0 THEN << >> ELSE Zfill(n \div 10, w - 1) \o <<Digit(n % 10)>>

\* variant: the format string written day first, "%d/%m/%Y"
strftime_day_first(d) ==
    Zfill(d[3], 2) \o <<"/">> \o Zfill(d[2], 2) \o <<"/">> \o Zfill(d[1], 4)

\* date.strftime("%m/%d/%Y"), as a sequence of characters
strftime(d) == Zfill(d[2], 2) \o <<"/">> \o Zfill(d[3], 2) \o <<"/">> \o Zfill(d[1], 4)

\* user.email and user.profile.name of the user model
email(u) == <<u, "@example.com">>
profile_name(u) == <<u, "profile">>

PLATFORM_NAME == "edX"

(* ------------------------------- state --------------------------------- *)

VARIABLES
    attempts,   \* VerificationAttempt table: id -> row
    id_seq,     \* last id handed out by the table's auto-increment key
    last,       \* the last API call: arguments, ORM calls, backend calls, outcome
    before      \* the table as it was when the last API call began

vars == <<attempts, id_seq, last, before>>

NoAttempt == [user |-> "", name |-> "", status |-> "", expiration_datetime |-> None]

\* attempt objects that are not rows of the table (the unsaved or foreign
\* objects a caller may hand to send_approval_email)
TransientAttempts ==
    {[user |-> "bob", name |-> "", status |-> "submitted", expiration_datetime |-> e] :
        e \in {<<2025, 1, 2, 13>>}}

Call(op, attempt_id, status, attempt, setting, orm, calls, raised, value) ==
    [op |-> op, attempt_id |-> attempt_id, status |-> status, attempt |-> attempt,
     setting |-> setting, orm |-> orm, calls |-> calls, raised |-> raised,
     value |-> value]

Init ==
    /\ attempts = << >>
    /\ id_seq = 0
    /\ last = Call("none", 0, "", NoAttempt, "None", << >>, << >>, "None", 0)
    /\ before = << >>

(* ------------------------------ actions -------------------------------- *)

\* variant: the expiration_datetime argument is not passed on to the row
objects_create_no_expiration(row) ==
    (id_seq + 1) :> [row EXCEPT !.expiration_datetime = None] @@ attempts

\* variant: the new row replaces the table instead of joining it
objects_create_replacing(row) == (id_seq + 1) :> row

\* VerificationAttempt.objects.create(...): insert a row under the next key
objects_create(row) == (id_seq + 1) :> row @@ attempts

create_verification_attempt(user, name, status, expiration_datetime) ==
    LET row == [user |-> user, name |-> name, status |-> status,
                expiration_datetime |-> expiration_datetime]
    IN /\ Cardinality(DOMAIN attempts) < MaxAttempts
       /\ before' = attempts
       /\ attempts' = objects_create(row)
       /\ id_seq' = id_seq + 1
       /\ last' = Call("create", 0, status, row, "None", <<"create">>, << >>,
                       "None", id_seq + 1)

\* variant: the status is assigned but save() is never called
save_status_not_saved(attempt_id, status) == attempts

\* variant: the status is written to every row (an unfiltered queryset update)
save_status_every_row(attempt_id, status) ==
    [i \in DOMAIN attempts |-> [attempts[i] EXCEPT !.status = status]]

\* attempt.status = status; attempt.save()
save_status(attempt_id, status) == [attempts EXCEPT ![attempt_id].status = status]

\* variant: the invalid status is logged but the raise is missing
update_without_raise(attempt_id, status) ==
    /\ id_seq' = id_seq
    /\ before' = attempts
    /\ IF attempt_id \notin DOMAIN attempts
       THEN /\ attempts' = attempts
            /\ last' = Call("update", attempt_id, status, NoAttempt, "None", <<"get">>, << >>,
                            "DoesNotExist", 0)
       ELSE /\ attempts' = save_status(attempt_id, status)
            /\ last' = Call("update", attempt_id, status, NoAttempt, "None",
                            <<"get", "save">>, << >>, "None", 0)

\* variant: a missing row is created instead of reported (update_or_create)
update_or_create(attempt_id, status) ==
    /\ id_seq' = id_seq
    /\ before' = attempts
    /\ IF status \notin status_list
       THEN /\ attempts' = attempts
            /\ last' = Call("update", attempt_id, status, NoAttempt, "None", << >>, << >>,
                            "VerificationAttemptInvalidStatus", 0)
       ELSE IF attempt_id \notin DOMAIN attempts
       THEN /\ attempts' = attempt_id :> [NoAttempt EXCEPT !.status = status] @@ attempts
            /\ last' = Call("update", attempt_id, status, NoAttempt, "None",
                            <<"get", "create">>, << >>, "None", 0)
       ELSE /\ attempts' = save_status(attempt_id, status)
            /\ last' = Call("update", attempt_id, status, NoAttempt, "None",
                            <<"get", "save">>, << >>, "None", 0)

\* variant: the record is looked up before the status is checked
update_lookup_first(attempt_id, status) ==
    /\ id_seq' = id_seq
    /\ before' = attempts
    /\ IF attempt_id \notin DOMAIN attempts
       THEN /\ attempts' = attempts
            /\ last' = Call("update", attempt_id, status, NoAttempt, "None", <<"get">>, << >>,
                            "DoesNotExist", 0)
       ELSE IF status \notin status_list
       THEN /\ attempts' = attempts
            /\ last' = Call("update", attempt_id, status, NoAttempt, "None", <<"get">>, << >>,
                            "VerificationAttemptInvalidStatus", 0)
       ELSE /\ attempts' = save_status(attempt_id, status)
            /\ last' = Call("update", attempt_id, status, NoAttempt, "None",
                            <<"get", "save">>, << >>, "None", 0)

update_verification_attempt_status(attempt_id, status) ==
    /\ id_seq' = id_seq
    /\ before' = attempts
    /\ IF status \notin status_list
       THEN /\ attempts' = attempts
            /\ last' = Call("update", attempt_id, status, NoAttempt, "None", << >>, << >>,
                            "VerificationAttemptInvalidStatus", 0)
       ELSE IF attempt_id \notin DOMAIN attempts
       THEN /\ attempts' = attempts
            /\ last' = Call("update", attempt_id, status, NoAttempt, "None", <<"get">>, << >>,
                            "DoesNotExist", 0)
       ELSE /\ attempts' = save_status(attempt_id, status)
            /\ last' = Call("update", attempt_id, status, NoAttempt, "None",
                            <<"get", "save">>, << >>, "None", 0)

\* the context handed to send_verification_status_email.delay
delay_context(attempt, expiration_datetime) ==
    [subject |-> <<"Your ", PLATFORM_NAME, " ID verification was approved!">>,
     template |-> "emails/passed_verification_email.txt",
     email |-> email(attempt.user),
     email_vars |-> [platform_name |-> PLATFORM_NAME,
                     expiration_datetime |-> strftime(expiration_datetime),
                     full_name |-> profile_name(attempt.user)]]

\* the context handed to send_verification_approved_email
email_context(attempt, expiration_datetime) ==
    [user |-> attempt.user, expiration_datetime |-> strftime(expiration_datetime)]

\* the backend calls send_approval_email makes once the date is known
backend_calls(attempt, use_django_mail) ==
    LET expiration_datetime == date(attempt.expiration_datetime)
    IN IF Truthy(use_django_mail)
       THEN <<[fn |-> "send_verification_status_email.delay",
               context |-> delay_context(attempt, expiration_datetime)]>>
       ELSE <<[fn |-> "send_verification_approved_email",
               context |-> email_context(attempt, expiration_datetime)]>>

\* variant: a missing expiration_datetime is skipped over and the e-mail goes
\* out with an empty date
send_approval_email_unguarded(attempt, use_django_mail) ==
    /\ UNCHANGED <<attempts, id_seq>>
    /\ before' = attempts
    /\ IF attempt.expiration_datetime = None
       THEN last' = Call("send", 0, "", attempt, use_django_mail, << >>,
                         <<[fn |-> IF Truthy(use_django_mail)
                                   THEN "send_verification_status_email.delay"
                                   ELSE "send_verification_approved_email",
                            context |-> [user |-> attempt.user,
                                         expiration_datetime |-> << >>]]>>,
                         "None", 0)
       ELSE last' = Call("send", 0, "", attempt, use_django_mail, << >>,
                         backend_calls(attempt, use_django_mail), "None", 0)

send_approval_email(attempt, use_django_mail) ==
    /\ UNCHANGED <<attempts, id_seq>>
    /\ before' = attempts
    /\ IF attempt.expiration_datetime = None
       THEN last' = Call("send", 0, "", attempt, use_django_mail, << >>, << >>,
                         "AttributeError", 0)
       ELSE last' = Call("send", 0, "", attempt, use_django_mail, << >>,
                         backend_calls(attempt, use_django_mail), "None", 0)

StoredAttempts == {attempts[i] : i \in DOMAIN attempts}

Next ==
    \/ \E l \in Learners, s \in CreateStatusInputs, e \in ExpirationInputs :
          create_verification_attempt(l[1], l[2], s, e)
    \/ \E i \in IdInputs, s \in StatusInputs :
          update_verification_attempt_status(i, s)
    \/ \E a \in StoredAttempts \cup TransientAttempts, m \in SettingValues :
          send_approval_email(a, m)

Spec == Init /\ [][Next]_vars

(* --------------------------- claim vocabulary -------------------------- *)

\* the allowed statuses, as the claims enumerate them
AllowedStatuses == {"created", "pending", "approved", "denied"}

Ids(table) == DOMAIN table

UpdateCalled == last.op = "update"
CreateCalled == last.op = "create"
SendCalled == last.op = "send"
Succeeded == last.raised = "None"

\* every row of the table except (possibly) row i is as it was before the call
OthersUnchanged(i) ==
    \A j \in Ids(before) : j # i => (j \in Ids(attempts) /\ attempts[j] = before[j])

DigitValue(c) == CHOOSE n \in 0..9 : DigitChars[n + 1] = c

\* the date written as mm/dd/yyyy in a sequence of ten characters
ParseMDY(str) ==
    <<1000 * DigitValue(str[7]) + 100 * DigitValue(str[8])
        + 10 * DigitValue(str[9]) + DigitValue(str[10]),
      10 * DigitValue(str[1]) + DigitValue(str[2]),
      10 * DigitValue(str[4]) + DigitValue(str[5])>>

DelayCall(c) == c.fn = "send_verification_status_email.delay"
DirectCall(c) == c.fn = "send_verification_approved_email"

\* the expiration date string an e-mail backend call carries
CarriedDate(c) ==
    IF DelayCall(c) THEN c.context.email_vars.expiration_datetime
    ELSE c.context.expiration_datetime

(* -------------------------------- claims ------------------------------- *)

\* C1: for an existing attempt, whatever its status, and an allowed status s,
\* update_verification_attempt_status(attempt_id, s) does not raise and the
\* stored status of that attempt is s afterwards.
C1_UpdateSetsStatus ==
    (UpdateCalled /\ last.attempt_id \in Ids(before) /\ last.status \in AllowedStatuses)
        => /\ Succeeded
           /\ last.attempt_id \in Ids(attempts)
           /\ attempts[last.attempt_id].status = last.status

\* C1 witness: an attempt whose status was outside the enumeration is moved to
\* "denied" by a successful update.
C1_Witness ==
    /\ UpdateCalled /\ Succeeded
    /\ last.attempt_id \in Ids(before)
    /\ before[last.attempt_id].status = "completed"
    /\ last.status = "denied"
    /\ attempts[last.attempt_id].status = "denied"

\* C2: a successful update changes only the status field of the attempt with
\* the given id; its user, name and expiration_datetime and every other stored
\* attempt are unchanged.
C2_UpdateFrame ==
    (UpdateCalled /\ Succeeded)
        => /\ Ids(attempts) = Ids(before)
           /\ last.attempt_id \in Ids(before)
           /\ attempts[last.attempt_id].user = before[last.attempt_id].user
           /\ attempts[last.attempt_id].name = before[last.attempt_id].name
           /\ attempts[last.attempt_id].expiration_datetime
                = before[last.attempt_id].expiration_datetime
           /\ OthersUnchanged(last.attempt_id)

\* C2 witness: a successful update that changes the status of attempt 1 while
\* attempt 2 is stored with a status different from the new one.
C2_Witness ==
    /\ UpdateCalled /\ Succeeded
    /\ last.attempt_id = 1
    /\ Ids(before) = {1, 2}
    /\ before[1].status # last.status
    /\ before[2].status # last.status
    /\ attempts[1].status = last.status

\* C3: with a status outside the allowed set the update raises
\* VerificationAttemptInvalidStatus and the stored attempts are exactly as
\* they were before the call.
C3_InvalidStatusRejected ==
    (UpdateCalled /\ last.status \notin AllowedStatuses)
        => /\ last.raised = "VerificationAttemptInvalidStatus"
           /\ attempts = before

\* C3 witness: status 'expired' is refused for an attempt that exists.
C3_Witness ==
    /\ UpdateCalled
    /\ last.status = "expired"
    /\ last.attempt_id \in Ids(before)
    /\ last.raised = "VerificationAttemptInvalidStatus"

\* C4: with an allowed status and an attempt_id that matches no stored attempt
\* the update raises DoesNotExist, creates no attempt with that id and leaves
\* every stored attempt unchanged.
C4_NotFound ==
    (UpdateCalled /\ last.status \in AllowedStatuses /\ last.attempt_id \notin Ids(before))
        => /\ last.raised = "DoesNotExist"
           /\ last.attempt_id \notin Ids(attempts)
           /\ attempts = before

\* C4 witness: an update to 'approved' of an id that is not in a non-empty table.
C4_Witness ==
    /\ UpdateCalled
    /\ last.status = "approved"
    /\ Ids(before) # {}
    /\ last.attempt_id \notin Ids(before)
    /\ last.raised = "DoesNotExist"

\* C5: create_verification_attempt adds exactly one attempt and returns its
\* id, the next one after the ids already assigned (2 when one attempt
\* exists); the attempt stored under that id has exactly the given user, name,
\* status and expiration_datetime (None when omitted), and all previously
\* stored attempts are unchanged.
C5_CreateAddsOne ==
    CreateCalled
        => /\ Succeeded
           /\ last.value \notin Ids(before)
           /\ \A i \in Ids(before) : i < last.value
           /\ last.value = Cardinality(Ids(before)) + 1
           /\ Ids(attempts) = Ids(before) \cup {last.value}
           /\ attempts[last.value] = last.attempt
           /\ OthersUnchanged(last.value)

\* C5 witness: with one attempt stored, a create without expiration_datetime
\* returns 2 and stores None.
C5_Witness ==
    /\ CreateCalled
    /\ Ids(before) = {1}
    /\ last.value = 2
    /\ last.attempt.expiration_datetime = None
    /\ attempts[2].expiration_datetime = None
    /\ attempts[2].user = "bob"

\* C6: after any sequence of create and update calls the status of every
\* stored attempt is one of the allowed statuses.
C6_StatusInEnumeration ==
    \A i \in Ids(attempts) : attempts[i].status \in AllowedStatuses

\* C7: no call deletes an attempt: the set of stored ids never loses an
\* element, and it gains one only through create_verification_attempt.
C7_NeverDeleted ==
    /\ Ids(before) \subseteq Ids(attempts)
    /\ Ids(attempts) # Ids(before) => CreateCalled

\* C7 witness: a failing update and the table still holds both attempts.
C7_Witness ==
    /\ UpdateCalled /\ ~Succeeded
    /\ Ids(before) = {1, 2}
    /\ Ids(attempts) = {1, 2}

\* C8: for an attempt that has an expiration_datetime, send_approval_email
\* makes exactly one backend call: the send_verification_status_email task is
\* queued when USE_DJANGO_MAIL is true, send_verification_approved_email is
\* called otherwise; the call carries the attempt's expiration date and no
\* stored attempt is modified.
C8_ExactlyOneBackend ==
    (SendCalled /\ last.attempt.expiration_datetime # None)
        => /\ Succeeded
           /\ Len(last.calls) = 1
           /\ (last.setting = "True") => DelayCall(last.calls[1])
           /\ (last.setting # "True") => DirectCall(last.calls[1])
           /\ ParseMDY(CarriedDate(last.calls[1]))
                = <<last.attempt.expiration_datetime[1],
                    last.attempt.expiration_datetime[2],
                    last.attempt.expiration_datetime[3]>>
           /\ attempts = before

\* C8 witness: a stored attempt expiring on 2024-12-31 is mailed through the
\* task queue.
C8_Witness ==
    /\ SendCalled
    /\ last.attempt \in StoredAttempts
    /\ last.attempt.expiration_datetime = <<2024, 12, 31, 0>>
    /\ last.setting = "True"
    /\ Len(last.calls) = 1
    /\ DelayCall(last.calls[1])

\* C9: the status check comes before the record lookup: with a status that is
\* not allowed and an id that matches no attempt the update raises
\* VerificationAttemptInvalidStatus and the table is neither read nor written.
C9_StatusCheckedFirst ==
    (UpdateCalled /\ last.status \notin AllowedStatuses /\ last.attempt_id \notin Ids(before))
        => /\ last.raised = "VerificationAttemptInvalidStatus"
           /\ last.orm = << >>
           /\ attempts = before

\* C9 witness: status 'completed' with an id that is not in the table.
C9_Witness ==
    /\ UpdateCalled
    /\ last.status = "completed"
    /\ last.attempt_id \notin Ids(before)
    /\ last.raised = "VerificationAttemptInvalidStatus"
    /\ last.orm = << >>

\* C10: send_approval_email on an attempt stored without expiration_datetime
\* fails before either backend is called, whatever USE_DJANGO_MAIL is: no
\* e-mail is sent and no task is queued.
C10_NoExpirationNoEmail ==
    (SendCalled /\ last.attempt.expiration_datetime = None)
        => /\ ~Succeeded
           /\ last.calls = << >>

\* C10 witness: an attempt created without expiration_datetime is handed to
\* send_approval_email with USE_DJANGO_MAIL false.
C10_Witness ==
    /\ SendCalled
    /\ last.attempt \in StoredAttempts
    /\ last.attempt.expiration_datetime = None
    /\ last.setting = "False"
    /\ last.raised = "AttributeError"

====
